---- MODULE Spec2Model ----
(***************************************************************************)
(* Model of mna_gui.py: the value parser convertir_valor, the MNA solver    *)
(* construir_y_resolver and the editor handlers of the class MNA_GUI.      *)
(*                                                                         *)
(* Numbers.  A Python float is modelled as a rational <<num, den>> in      *)
(* lowest terms with den > 0.  The variable prec fixes the arithmetic of   *)
(* a run: prec = 0 is real arithmetic (no rounding), prec = p > 0 is       *)
(* binary floating point with a p-bit significand and round-to-nearest,    *)
(* ties-to-even, applied after every operation as IEEE 754 does (the code  *)
(* runs at p = 53).                                                        *)
(*                                                                         *)
(* Specifications.  Each one draws the argument of a call from a bounded   *)
(* set and applies the function once:                                      *)
(*   Spec       construir_y_resolver, real arithmetic, nodes 0..2;         *)
(*   SpecUn     construir_y_resolver, real arithmetic, nodes 0..1, longer  *)
(*              lists of resistors and sources;                            *)
(*   SpecFl     construir_y_resolver, rounded arithmetic, nodes 0..3;      *)
(*   SpecValor  convertir_valor.                                           *)
(* SpecGui runs the editor: any sequence of the handlers agregar,          *)
(* eliminar_seleccionado, limpiar and resolver from the empty editor.      *)
(***************************************************************************)
EXTENDS Integers, Sequences, FiniteSets

VARIABLES elementos, ret, prec, txt, conv,
          tree, result_text, dialogo, handler

vars == <<elementos, ret, prec, txt, conv, tree, result_text, dialogo, handler>>

\* The widgets of the editor: the rows of the table, the lines of the
\* results panel, the message box opened by the last handler ("" when it
\* opened none) and the handler that ran last.
gui == <<tree, result_text, dialogo, handler>>

(***************************************************************************)
(* Bounds of the model.                                                    *)
(***************************************************************************)
MaxElems == 2

MaxElemsUn == 3

MaxLen == 3

MantBits == 4

MaxFilas == 2

(***************************************************************************)
(* Rational arithmetic.                                                    *)
(***************************************************************************)
Abs(x) == IF x < 0 THEN -x ELSE x

RECURSIVE GCD(_, _)
GCD(a, b) == IF b = 0 THEN a ELSE GCD(b, a % b)

Rat(n, d) ==
    LET g == GCD(Abs(n), Abs(d))
        s == IF d < 0 THEN -1 ELSE 1
    IN  <<s * (n \div g), s * (d \div g)>>

Zero == <<0, 1>>

One == <<1, 1>>

RNeg(a) == <<-a[1], a[2]>>

RAbs(a) == <<Abs(a[1]), a[2]>>

RLess(a, b) == a[1] * b[2] < b[1] * a[2]

RECURSIVE Pow2(_)
Pow2(k) == IF k = 0 THEN 1 ELSE 2 * Pow2(k - 1)

\* floor(log2(n/d)) for n, d > 0: the binary exponent of the value.
RECURSIVE Ilog2(_, _)
Ilog2(n, d) ==
    IF n >= 2 * d THEN 1 + Ilog2(n, 2 * d)
    ELSE IF n < d THEN Ilog2(2 * n, d) - 1
    ELSE 0

\* Nearest integer to n/d (n >= 0, d > 0), ties to even.
RoundNearestEven(n, d) ==
    LET q == n \div d
        r == n % d
    IN  IF 2 * r < d THEN q
        ELSE IF 2 * r > d THEN q + 1
        ELSE IF q % 2 = 0 THEN q ELSE q + 1

\* The p-bit float nearest to the rational a (round-to-nearest-even).
RoundTo(a, p) ==
    IF a[1] = 0 THEN Zero
    ELSE LET n == Abs(a[1])
             d == a[2]
             e == Ilog2(n, d)
             sh == e - (p - 1)
             m == IF sh >= 0 THEN RoundNearestEven(n, d * Pow2(sh))
                             ELSE RoundNearestEven(n * Pow2(-sh), d)
             v == IF sh >= 0 THEN Rat(m * Pow2(sh), 1) ELSE Rat(m, Pow2(-sh))
         IN  IF a[1] < 0 THEN RNeg(v) ELSE v

\* The result of one float operation whose real value is a.
Fl(a) == IF prec = 0 THEN a ELSE RoundTo(a, prec)

FAdd(a, b) == Fl(Rat(a[1] * b[2] + b[1] * a[2], a[2] * b[2]))

FSub(a, b) == Fl(Rat(a[1] * b[2] - b[1] * a[2], a[2] * b[2]))

FMul(a, b) == Fl(Rat(a[1] * b[1], a[2] * b[2]))

\* b # Zero
FDiv(a, b) == Fl(Rat(a[1] * b[2], a[2] * b[1]))

(***************************************************************************)
(* convertir_valor.  A text is a sequence of one-character strings.        *)
(***************************************************************************)
Digitos == {"0", "1", "2", "3", "4", "5", "6", "7", "8", "9"}

DigitVal(c) ==
    CASE c = "0" -> 0 [] c = "1" -> 1 [] c = "2" -> 2 [] c = "3" -> 3
      [] c = "4" -> 4 [] c = "5" -> 5 [] c = "6" -> 6 [] c = "7" -> 7
      [] c = "8" -> 8 [] c = "9" -> 9

RECURSIVE Pow10(_)
Pow10(k) == IF k = 0 THEN 1 ELSE 10 * Pow10(k - 1)

\* str.strip(): the text without its leading and trailing blanks.
RECURSIVE lstrip(_)
lstrip(s) == IF s # <<>> /\ s[1] = " " THEN lstrip(Tail(s)) ELSE s

RECURSIVE rstrip(_)
rstrip(s) ==
    IF s # <<>> /\ s[Len(s)] = " " THEN rstrip(SubSeq(s, 1, Len(s) - 1)) ELSE s

strip(s) == rstrip(lstrip(s))

\* The value of a sequence of decimal digits.
RECURSIVE DecVal(_)
DecVal(ds) ==
    IF ds = <<>> THEN 0
    ELSE 10 * DecVal(SubSeq(ds, 1, Len(ds) - 1)) + DigitVal(ds[Len(ds)])

\* float(s) on a text without exponent letter, underscore, "inf" or "nan":
\* blanks around are ignored, then an optional sign, then digits with at
\* most one point and at least one digit.  ok = FALSE is ValueError.
py_float(s) ==
    LET t == strip(s)
        signed == t # <<>> /\ t[1] \in {"-", "+"}
        u == IF signed THEN Tail(t) ELSE t
        puntos == {i \in 1..Len(u) : u[i] = "."}
        pt == IF puntos = {} THEN Len(u) + 1 ELSE CHOOSE i \in puntos : TRUE
        ent == SubSeq(u, 1, pt - 1)
        fra == SubSeq(u, pt + 1, Len(u))
        wellformed ==
            /\ Cardinality(puntos) <= 1
            /\ \A i \in 1..Len(u) : u[i] \in Digitos \cup {"."}
            /\ Len(ent) + Len(fra) >= 1
        mag == Rat(DecVal(ent) * Pow10(Len(fra)) + DecVal(fra), Pow10(Len(fra)))
    IN  IF ~wellformed THEN [ok |-> FALSE, val |-> Zero]
        ELSE [ok |-> TRUE,
              val |-> Fl(IF signed /\ t[1] = "-" THEN RNeg(mag) ELSE mag)]

\* multipliers with the factors of "m" and "M" exchanged.
multipliers_mM ==
    [c \in {"k", "M", "m", "u"} |->
        CASE c = "k" -> <<1000, 1>>
          [] c = "M" -> <<1, 1000>>
          [] c = "m" -> <<1000000, 1>>
          [] c = "u" -> <<1, 1000000>>]

multipliers ==
    [c \in {"k", "M", "m", "u"} |->
        CASE c = "k" -> <<1000, 1>>
          [] c = "M" -> <<1000000, 1>>
          [] c = "m" -> <<1, 1000>>
          [] c = "u" -> <<1, 1000000>>]

\* The outcome of a call: st = "ok" with the value returned, or st the
\* exception raised.
convertir_valor(valor_str) ==
    LET s == strip(valor_str)
    IN  IF s = <<>> THEN [st |-> "ValueError", val |-> Zero]
        ELSE IF s[Len(s)] \in DOMAIN multipliers
        THEN LET num == py_float(SubSeq(s, 1, Len(s) - 1))
             IN  IF num.ok
                 THEN [st |-> "ok", val |-> FMul(num.val, multipliers[s[Len(s)]])]
                 ELSE [st |-> "ValueError", val |-> Zero]
        ELSE LET num == py_float(s)
             IN  IF num.ok THEN [st |-> "ok", val |-> num.val]
                 ELSE [st |-> "ValueError", val |-> Zero]

(***************************************************************************)
(* construir_y_resolver.                                                   *)
(***************************************************************************)
\* The sequence of the elements of a finite set of integers, ascending.
RECURSIVE sorted(_)
sorted(S) ==
    IF S = {} THEN <<>>
    ELSE LET lo == CHOOSE x \in S : \A y \in S : x <= y
         IN  <<lo>> \o sorted(S \ {lo})

\* 1) the non-ground nodes of the circuit, ascending.
nodos_de(elems) ==
    sorted(({elems[k].np : k \in 1..Len(elems)} \cup
            {elems[k].nn : k \in 1..Len(elems)}) \ {0})

\* 2) node -> row of the matrix (rows are numbered from 1 here).
nodo_index(nodos, nodo) == CHOOSE i \in 1..Len(nodos) : nodos[i] = nodo

\* 3) the voltage sources, in order of appearance.
fuentes_de(elems) == SelectSeq(elems, LAMBDA e : e.tipo = "V")

MatAdd(M, i, j, x) == [M EXCEPT ![i][j] = FAdd(@, x)]

MatSub(M, i, j, x) == [M EXCEPT ![i][j] = FSub(@, x)]

\* The stamp of a resistor np - nn of conductance g into G.
StampR(G, nodos, e, g) ==
    LET G1 == IF e.np # 0
              THEN MatAdd(G, nodo_index(nodos, e.np), nodo_index(nodos, e.np), g)
              ELSE G
        G2 == IF e.nn # 0
              THEN MatAdd(G1, nodo_index(nodos, e.nn), nodo_index(nodos, e.nn), g)
              ELSE G1
    IN  IF e.np # 0 /\ e.nn # 0
        THEN LET i == nodo_index(nodos, e.np)
                 j == nodo_index(nodos, e.nn)
             IN  MatSub(MatSub(G2, i, j, g), j, i, g)
        ELSE G2

\* StampV with the two signs exchanged.
StampV_signos(B, nodos, e, iv) ==
    LET B1 == IF e.np # 0
              THEN [B EXCEPT ![nodo_index(nodos, e.np)][iv] = RNeg(One)]
              ELSE B
    IN  IF e.nn # 0
        THEN [B1 EXCEPT ![nodo_index(nodos, e.nn)][iv] = One]
        ELSE B1

\* The stamp of the voltage source number iv into B: two assignments, the
\* second one overwriting the first when both terminals are the same node.
StampV(B, nodos, e, iv) ==
    LET B1 == IF e.np # 0
              THEN [B EXCEPT ![nodo_index(nodos, e.np)][iv] = One]
              ELSE B
    IN  IF e.nn # 0
        THEN [B1 EXCEPT ![nodo_index(nodos, e.nn)][iv] = RNeg(One)]
        ELSE B1

\* Llenar with the unknown kinds passed over, as the loop of step 8 does.
RECURSIVE Llenar_pass(_, _, _, _)
Llenar_pass(elems, nodos, k, s) ==
    IF k > Len(elems) \/ s.exc # "" THEN s
    ELSE LET e == elems[k]
         IN  IF e.tipo = "R"
             THEN IF e.val = Zero
                  THEN Llenar_pass(elems, nodos, k + 1,
                                   [s EXCEPT !.exc = "ZeroDivisionError"])
                  ELSE Llenar_pass(elems, nodos, k + 1,
                                   [s EXCEPT !.G = StampR(s.G, nodos, e, FDiv(One, e.val))])
             ELSE IF e.tipo = "V"
             THEN Llenar_pass(elems, nodos, k + 1,
                              [s EXCEPT !.B = StampV(s.B, nodos, e, s.idx_v),
                                        !.E = [@ EXCEPT ![s.idx_v] = e.val],
                                        !.idx_v = @ + 1])
             ELSE Llenar_pass(elems, nodos, k + 1, s)

\* 4) the loop that fills G, B and E, from element k on.  s.exc is the
\* exception that ended the loop, "" while none did.
RECURSIVE Llenar(_, _, _, _)
Llenar(elems, nodos, k, s) ==
    IF k > Len(elems) \/ s.exc # "" THEN s
    ELSE LET e == elems[k]
         IN  IF e.tipo = "R"
             THEN IF e.val = Zero
                  THEN Llenar(elems, nodos, k + 1, [s EXCEPT !.exc = "ZeroDivisionError"])
                  ELSE Llenar(elems, nodos, k + 1,
                              [s EXCEPT !.G = StampR(s.G, nodos, e, FDiv(One, e.val))])
             ELSE IF e.tipo = "V"
             THEN Llenar(elems, nodos, k + 1,
                         [s EXCEPT !.B = StampV(s.B, nodos, e, s.idx_v),
                                   !.E = [@ EXCEPT ![s.idx_v] = e.val],
                                   !.idx_v = @ + 1])
             ELSE Llenar(elems, nodos, k + 1, [s EXCEPT !.exc = "ValueError"])

Matrices(elems) ==
    LET nodos == nodos_de(elems)
        n == Len(nodos)
        m == Len(fuentes_de(elems))
    IN  Llenar(elems, nodos, 1,
               [G |-> [i \in 1..n |-> [j \in 1..n |-> Zero]],
                B |-> [i \in 1..n |-> [j \in 1..m |-> Zero]],
                E |-> [i \in 1..m |-> Zero],
                idx_v |-> 1,
                exc |-> ""])

\* 5) the augmented matrix A = [[G, B], [B^T, 0]] with the right-hand side
\* z = [I; E] as its last column (I is all zero).
Aumentada(s, n, m) ==
    [i \in 1..(n + m) |->
        [j \in 1..(n + m + 1) |->
            IF j = n + m + 1 THEN (IF i <= n THEN Zero ELSE s.E[i - n])
            ELSE IF i <= n /\ j <= n THEN s.G[i][j]
            ELSE IF i <= n THEN s.B[i][j - n]
            ELSE IF j <= n THEN s.B[j][i - n]
            ELSE Zero]]

\* The first row among k..N whose entry in column k is largest in absolute
\* value (partial pivoting).
PivotRow(M, k, N) ==
    CHOOSE p \in k..N :
        /\ \A i \in k..N : ~RLess(RAbs(M[p][k]), RAbs(M[i][k]))
        /\ \A i \in k..(p - 1) : RLess(RAbs(M[i][k]), RAbs(M[p][k]))

\* Elimination of column k from the rows below row k, the pivot being M[k][k].
EliminarColumna(M, k, N) ==
    [i \in 1..N |->
        IF i <= k THEN M[i]
        ELSE LET l == FDiv(M[i][k], M[k][k])
             IN  [j \in 1..(N + 1) |->
                    IF j < k THEN M[i][j]
                    ELSE IF j = k THEN Zero
                    ELSE FSub(M[i][j], FMul(l, M[k][j]))]]

\* LU factorisation with partial pivoting of the N x N system M (its last
\* column is the right-hand side), from column k on.  The factorisation
\* reports a singular matrix when a pivot is exactly zero.
RECURSIVE Factorizar(_, _, _)
Factorizar(M, k, N) ==
    IF k > N THEN [singular |-> FALSE, U |-> M]
    ELSE LET p == PivotRow(M, k, N)
         IN  IF M[p][k] = Zero THEN [singular |-> TRUE, U |-> M]
             ELSE LET S == [M EXCEPT ![k] = M[p], ![p] = M[k]]
                  IN  Factorizar(EliminarColumna(S, k, N), k + 1, N)

\* sum of U[i][j] * x[j] for j in lo..N
RECURSIVE SumaFila(_, _, _, _, _)
SumaFila(U, x, i, lo, N) ==
    IF lo > N THEN Zero
    ELSE FAdd(FMul(U[i][lo], x[lo]), SumaFila(U, x, i, lo + 1, N))

\* Back substitution: x[i] for the rows i..N, given x on the rows below.
RECURSIVE Sustituir(_, _, _, _)
Sustituir(U, x, i, N) ==
    IF i < 1 THEN x
    ELSE Sustituir(U,
                   [x EXCEPT ![i] = FDiv(FSub(U[i][N + 1], SumaFila(U, x, i, i + 1, N)),
                                         U[i][i])],
                   i - 1, N)

\* linalg_solve answering a singular system with the zero vector instead of
\* raising (a least-squares style fallback).
linalg_solve_fallback(M, N) ==
    LET f == Factorizar(M, 1, N)
    IN  IF f.singular THEN [exc |-> "", x |-> [i \in 1..N |-> Zero]]
        ELSE [exc |-> "", x |-> Sustituir(f.U, [i \in 1..N |-> Zero], N, N)]

\* 6) numpy.linalg.solve(A, z): LinAlgError on a singular factorisation,
\* else the solution vector.
linalg_solve(M, N) ==
    LET f == Factorizar(M, 1, N)
    IN  IF f.singular THEN [exc |-> "LinAlgError", x |-> <<>>]
        ELSE [exc |-> "", x |-> Sustituir(f.U, [i \in 1..N |-> Zero], N, N)]

\* What a call that raises leaves to its caller: the exception, no output.
Raise(exc) ==
    [st |-> exc, nodos |-> <<>>, Vn |-> <<>>, corriente_fuentes |-> <<>>,
     corriente_resistencias |-> <<>>, potencias_resistencias |-> <<>>]

\* 7) the dictionary of node voltages, node 0 included.
Vn_de(nodos, x) ==
    [nd \in {0} \cup {nodos[i] : i \in 1..Len(nodos)} |->
        IF nd = 0 THEN Zero ELSE x[nodo_index(nodos, nd)]]

\* Vn.get(nd, 0.0)
VnGet(Vn, nd) == IF nd \in DOMAIN Vn THEN Vn[nd] ELSE Zero

\* 8) current of the resistor e
I_R(Vn, e) == FDiv(FSub(VnGet(Vn, e.np), VnGet(Vn, e.nn)), e.val)

\* P_R with one factor I missing.
P_R_lineal(Vn, e) == FMul(I_R(Vn, e), e.val)

\* 8) power of the resistor e: I * I * R
P_R(Vn, e) == FMul(FMul(I_R(Vn, e), I_R(Vn, e)), e.val)

resistencias_de(elems) == SelectSeq(elems, LAMBDA e : e.tipo = "R")

construir_y_resolver(elems) ==
    LET nodos == nodos_de(elems)
        n == Len(nodos)
        m == Len(fuentes_de(elems))
        s == Matrices(elems)
    IN  IF s.exc # "" THEN Raise(s.exc)
        ELSE IF n = 0
        THEN IF m > 0 THEN Raise("LinAlgError")
             ELSE [st |-> "ok", nodos |-> <<>>, Vn |-> <<>>,
                   corriente_fuentes |-> <<>>, corriente_resistencias |-> <<>>,
                   potencias_resistencias |-> <<>>]
        ELSE LET sol == linalg_solve(Aumentada(s, n, m), n + m)
             IN  IF sol.exc # "" THEN Raise(sol.exc)
                 ELSE LET Vn == Vn_de(nodos, sol.x)
                          rs == resistencias_de(elems)
                      IN  [st |-> "ok", nodos |-> nodos, Vn |-> Vn,
                           corriente_fuentes |-> [i \in 1..m |-> sol.x[n + i]],
                           corriente_resistencias |->
                               [i \in 1..Len(rs) |-> I_R(Vn, rs[i])],
                           potencias_resistencias |->
                               [i \in 1..Len(rs) |-> P_R(Vn, rs[i])]]

(***************************************************************************)
(* The circuits given to the solver.                                       *)
(***************************************************************************)
Nodes == {0, 1, 2}

Tipos == {"R", "V", "X"}

\* The values a component of each kind is given: resistances of both
\* signs and zero (no check of the value stands before the solver), voltages.
Valores(tipo) ==
    IF tipo = "R" THEN {<<2, 1>>, <<-1, 1>>, <<0, 1>>}
    ELSE IF tipo = "V" THEN {<<1, 1>>, <<2, 1>>}
    ELSE {<<1, 1>>}

Componentes ==
    UNION {[tipo : {t}, np : Nodes, nn : Nodes, val : Valores(t)] : t \in Tipos}

\* The sequences of at most k members of C.
RECURSIVE Listas(_, _)
Listas(C, k) ==
    IF k = 0 THEN {<<>>}
    ELSE LET L == Listas(C, k - 1)
         IN  L \cup {Append(l, c) : l \in {x \in L : Len(x) = k - 1}, c \in C}

NoRet == Raise("")

NoConv == [st |-> "", val |-> Zero]

\* The editor as __init__ leaves it: no row, no result, no message box.
NoGui ==
    /\ tree = <<>>
    /\ result_text = <<>>
    /\ dialogo = ""
    /\ handler = ""

\* A call construir_y_resolver(elementos).
Resolver ==
    /\ ret = NoRet
    /\ ret' = construir_y_resolver(elementos)
    /\ UNCHANGED <<elementos, prec, txt, conv, gui>>

\* A call convertir_valor(txt).
Convertir ==
    /\ conv = NoConv
    /\ conv' = convertir_valor(txt)
    /\ UNCHANGED <<elementos, ret, prec, txt, gui>>

\* The solver in real arithmetic, on every circuit of the bounds.
Init ==
    /\ elementos \in Listas(Componentes, MaxElems)
    /\ ret = NoRet
    /\ prec = 0
    /\ txt = <<>>
    /\ conv = NoConv
    /\ NoGui

Next == Resolver

Spec == Init /\ [][Next]_vars

\* The circuits on one non-ground node, of resistors and sources.
NodesUn == {0, 1}

ComponentesUn ==
    [tipo : {"R"}, np : NodesUn, nn : NodesUn, val : {<<2, 1>>, <<-1, 1>>, <<0, 1>>}]
    \cup [tipo : {"V"}, np : NodesUn, nn : NodesUn, val : {<<1, 1>>, <<2, 1>>}]

\* The solver in real arithmetic, on the longer circuits of one node.
InitUn ==
    /\ elementos \in Listas(ComponentesUn, MaxElemsUn)
    /\ ret = NoRet
    /\ prec = 0
    /\ txt = <<>>
    /\ conv = NoConv
    /\ NoGui

NextUn == Resolver

SpecUn == InitUn /\ [][NextUn]_vars

\* The circuits solved in floating point: up to three non-ground nodes,
\* values that the significand holds exactly.
NodesFl == {0, 1, 2, 3}

ComponentesFl ==
    [tipo : {"R"}, np : NodesFl, nn : NodesFl, val : {<<1, 1>>, <<3, 1>>}]
    \cup [tipo : {"V"}, np : NodesFl, nn : NodesFl, val : {<<1, 1>>}]

\* The solver in floating point with a significand of MantBits bits.
InitFl ==
    /\ elementos \in Listas(ComponentesFl, MaxElems)
    /\ ret = NoRet
    /\ prec = MantBits
    /\ txt = <<>>
    /\ conv = NoConv
    /\ NoGui

NextFl == Resolver

SpecFl == InitFl /\ [][NextFl]_vars

\* The characters of the texts given to the parser.
Chars == {" ", "-", "0", "1", "2", ".", "k", "M", "m", "u", "x"}

\* The parser, on every text of the bounds.
InitValor ==
    /\ elementos = <<>>
    /\ ret = NoRet
    /\ prec = 0
    /\ txt \in Listas(Chars, MaxLen)
    /\ conv = NoConv
    /\ NoGui

NextValor == Convertir

SpecValor == InitValor /\ [][NextValor]_vars

(***************************************************************************)
(* The editor: class MNA_GUI.                                              *)
(***************************************************************************)
\* int(s) on a text without underscore: blanks around are ignored, then an
\* optional sign, then at least one digit and nothing else.  ok = FALSE is
\* ValueError.
py_int(s) ==
    LET t == strip(s)
        signed == t # <<>> /\ t[1] \in {"-", "+"}
        u == IF signed THEN Tail(t) ELSE t
        wellformed == u # <<>> /\ \A i \in 1..Len(u) : u[i] \in Digitos
    IN  IF ~wellformed THEN [ok |-> FALSE, val |-> 0]
        ELSE [ok |-> TRUE,
              val |-> IF signed /\ t[1] = "-" THEN -DecVal(u) ELSE DecVal(u)]

DigitChar(d) ==
    CASE d = 0 -> "0" [] d = 1 -> "1" [] d = 2 -> "2" [] d = 3 -> "3"
      [] d = 4 -> "4" [] d = 5 -> "5" [] d = 6 -> "6" [] d = 7 -> "7"
      [] d = 8 -> "8" [] d = 9 -> "9"

\* The decimal digits of n >= 0.
RECURSIVE DigitosDe(_)
DigitosDe(n) ==
    IF n < 10 THEN <<DigitChar(n)>>
    ELSE Append(DigitosDe(n \div 10), DigitChar(n % 10))

\* The text a cell of the table shows for the integer n: str(n).
str_int(n) == IF n < 0 THEN <<"-">> \o DigitosDe(-n) ELSE DigitosDe(n)

\* f"{x:.df}": the sign and the digits of x rounded to d decimals, as the
\* integer number of units of 10^-d (the sign of a zero is not kept).
Fmt(x, d) ==
    [neg |-> x[1] < 0,
     dig |-> RoundNearestEven(Abs(x[1]) * Pow10(d), x[2])]

\* floor(log10(n/d)) for n, d > 0.
RECURSIVE Exp10(_, _)
Exp10(n, d) ==
    IF n >= 10 * d THEN 1 + Exp10(n, 10 * d)
    ELSE IF n < d THEN Exp10(10 * n, d) - 1
    ELSE 0

\* f"{x:.2e}" for x # 0: three significant digits and the exponent of ten.
FmtE(x) ==
    LET n == Abs(x[1])
        e == Exp10(n, x[2])
        m == IF e >= 0 THEN RoundNearestEven(n * 100, x[2] * Pow10(e))
                       ELSE RoundNearestEven(n * 100 * Pow10(-e), x[2])
    IN  [neg |-> x[1] < 0,
         dig |-> IF m = 1000 THEN 100 ELSE m,
         exp |-> IF m = 1000 THEN e + 1 ELSE e]

\* The text of a value in the table: the scaled number and its prefix.
format_val(v) ==
    IF v[1] = 0 THEN <<"0">>
    ELSE IF ~RLess(RAbs(v), <<1000000, 1>>)
    THEN <<Fmt(FDiv(v, <<1000000, 1>>), 2), "M">>
    ELSE IF ~RLess(RAbs(v), <<1000, 1>>)
    THEN <<Fmt(FDiv(v, <<1000, 1>>), 2), "k">>
    ELSE IF ~RLess(RAbs(v), One)
    THEN <<Fmt(v, 2), "">>
    ELSE IF ~RLess(RAbs(v), <<1, 1000>>)
    THEN <<Fmt(FMul(v, <<1000, 1>>), 2), "m">>
    ELSE IF ~RLess(RAbs(v), <<1, 1000000>>)
    THEN <<Fmt(FMul(v, <<1000000, 1>>), 2), "u">>
    ELSE <<FmtE(v), "e">>

\* The row tree.insert makes of the values (tipo, np_, nn_, format_val(val)).
Fila(tipo, np_, nn_, val) ==
    <<tipo, str_int(np_), str_int(nn_), format_val(val)>>

\* The sequence s without its i-th member: del s[i].
Quitar(s, i) == SubSeq(s, 1, i - 1) \o SubSeq(s, i + 1, Len(s))

\* The lines resolver writes into the results panel for the result r of
\* the solver on elems.  The last block reads corr_res[r_idx] for every
\* resistor of elems: where the solver returned fewer currents than elems
\* has resistors the read raises IndexError, and the lines written so far
\* stay.
Lineas(elems, r) ==
    LET keys == sorted(DOMAIN r.Vn)
        rs == resistencias_de(elems)
        hay == IF Len(rs) <= Len(r.corriente_resistencias)
               THEN Len(rs) ELSE Len(r.corriente_resistencias)
    IN  << <<"=== Voltajes nodales ===">> >>
        \o [i \in 1..Len(keys) |-> <<"V", keys[i], Fmt(r.Vn[keys[i]], 6)>>]
        \o << <<"=== Voltajes en Resistencias ===">> >>
        \o [i \in 1..Len(rs) |->
               <<"VR", i, Fmt(FSub(VnGet(r.Vn, rs[i].np),
                                   VnGet(r.Vn, rs[i].nn)), 6)>>]
        \o << <<"=== Corrientes en fuentes de voltaje ===">> >>
        \o [i \in 1..Len(r.corriente_fuentes) |->
               <<"I(V)", i, Fmt(r.corriente_fuentes[i], 6)>>]
        \o << <<"=== Corrientes y potencias en resistencias ===">> >>
        \o [i \in 1..hay |->
               <<"R", i, Fmt(r.corriente_resistencias[i], 6),
                 Fmt(r.potencias_resistencias[i], 6)>>]

\* The kinds the read-only combobox offers.
TiposGui == {"R", "V"}

\* The texts typed into the node entries and into the value entry.
NodoTextos == {<<"0">>, <<" ", "1">>, <<"1", ".">>}

ValorTextos == {<<"2">>, <<"0">>, <<"k">>}

\* agregar appending the component as soon as the two nodes are read,
\* before the value is converted.
agregar_parcial(tipo, np_txt, nn_txt, val_txt) ==
    LET a == py_int(np_txt)
        b == py_int(nn_txt)
        c == convertir_valor(val_txt)
    IN  /\ Len(elementos) < MaxFilas
        /\ IF a.ok /\ b.ok
           THEN /\ elementos' = Append(elementos,
                       [tipo |-> tipo, np |-> a.val, nn |-> b.val, val |-> c.val])
                /\ tree' = Append(tree, Fila(tipo, a.val, b.val, c.val))
                /\ dialogo' = IF c.st = "ok" THEN "" ELSE "Datos invalidos"
           ELSE /\ dialogo' = "Datos invalidos"
                /\ UNCHANGED <<elementos, tree>>
        /\ handler' = "agregar"
        /\ UNCHANGED <<result_text, ret, prec, txt, conv>>

\* The button "Agregar" with the kind of the combobox and the texts of the
\* three entries.  The entries are the inputs of the call: every call reads
\* what was typed before it, so that clearing them leaves no state behind.
agregar(tipo, np_txt, nn_txt, val_txt) ==
    LET a == py_int(np_txt)
        b == py_int(nn_txt)
        c == convertir_valor(val_txt)
    IN  /\ Len(elementos) < MaxFilas
        /\ IF a.ok /\ b.ok /\ c.st = "ok"
           THEN /\ elementos' = Append(elementos,
                       [tipo |-> tipo, np |-> a.val, nn |-> b.val, val |-> c.val])
                /\ tree' = Append(tree, Fila(tipo, a.val, b.val, c.val))
                /\ dialogo' = ""
           ELSE /\ dialogo' = "Datos invalidos"
                /\ UNCHANGED <<elementos, tree>>
        /\ handler' = "agregar"
        /\ UNCHANGED <<result_text, ret, prec, txt, conv>>

\* eliminar_seleccionado deleting the last component of the list whatever
\* row is selected.
eliminar_ultimo(sel) ==
    /\ sel \subseteq 1..Len(tree)
    /\ IF sel = {}
       THEN /\ dialogo' = "Selecciona un elemento para eliminar"
            /\ UNCHANGED <<elementos, tree, result_text>>
       ELSE IF Cardinality(sel) > 1
       THEN /\ dialogo' = ""
            /\ UNCHANGED <<elementos, tree, result_text>>
       ELSE LET index == CHOOSE i \in sel : TRUE
            IN  /\ elementos' = Quitar(elementos, Len(elementos))
                /\ tree' = Quitar(tree, index)
                /\ result_text' = <<>>
                /\ dialogo' = ""
    /\ handler' = "eliminar_seleccionado"
    /\ UNCHANGED <<ret, prec, txt, conv>>

\* The button "Eliminar" with the rows sel selected in the table.  With
\* several rows selected tree.index is given a list of items, which is no
\* item: TclError ends the handler before anything is deleted.
eliminar_seleccionado(sel) ==
    /\ sel \subseteq 1..Len(tree)
    /\ IF sel = {}
       THEN /\ dialogo' = "Selecciona un elemento para eliminar"
            /\ UNCHANGED <<elementos, tree, result_text>>
       ELSE IF Cardinality(sel) > 1
       THEN /\ dialogo' = ""
            /\ UNCHANGED <<elementos, tree, result_text>>
       ELSE LET index == CHOOSE i \in sel : TRUE
            IN  /\ elementos' = Quitar(elementos, index)
                /\ tree' = Quitar(tree, index)
                /\ result_text' = <<>>
                /\ dialogo' = ""
    /\ handler' = "eliminar_seleccionado"
    /\ UNCHANGED <<ret, prec, txt, conv>>

\* The button "Limpiar".
limpiar ==
    /\ elementos' = <<>>
    /\ tree' = <<>>
    /\ result_text' = <<>>
    /\ dialogo' = ""
    /\ handler' = "limpiar"
    /\ UNCHANGED <<ret, prec, txt, conv>>

\* The button "Resolver".  The panel is rewritten only after the solver
\* returned; every earlier return leaves it as it was.
resolver ==
    /\ IF elementos = <<>>
       THEN /\ dialogo' = "No hay elementos en el circuito"
            /\ UNCHANGED result_text
       ELSE LET r == construir_y_resolver(elementos)
            IN  IF r.st = "LinAlgError"
                THEN /\ dialogo' = "El circuito es singular"
                     /\ UNCHANGED result_text
                ELSE IF r.st # "ok"
                THEN /\ dialogo' = "Error al resolver"
                     /\ UNCHANGED result_text
                ELSE /\ result_text' = Lineas(elementos, r)
                     /\ dialogo' = ""
    /\ handler' = "resolver"
    /\ UNCHANGED <<elementos, tree, ret, prec, txt, conv>>

\* The editor after __init__, in real arithmetic.
InitGui ==
    /\ elementos = <<>>
    /\ ret = NoRet
    /\ prec = 0
    /\ txt = <<>>
    /\ conv = NoConv
    /\ NoGui

NextGui ==
    \/ \E tipo \in TiposGui, np_txt \in NodoTextos, nn_txt \in NodoTextos,
          val_txt \in ValorTextos : agregar(tipo, np_txt, nn_txt, val_txt)
    \/ \E sel \in SUBSET (1..MaxFilas) : eliminar_seleccionado(sel)
    \/ limpiar
    \/ resolver

SpecGui == InitGui /\ [][NextGui]_vars

(***************************************************************************)
(* Properties of construir_y_resolver.                                     *)
(***************************************************************************)
Llamado == ret # NoRet

Resuelto == ret.st = "ok"

SoloRV == \A k \in 1..Len(elementos) : elementos[k].tipo \in {"R", "V"}

\* No resistor of the list has resistance zero.
SinCeros ==
    \A k \in 1..Len(elementos) :
        elementos[k].tipo = "R" => elementos[k].val # Zero

NumDe(tipo) == Cardinality({k \in 1..Len(elementos) : elementos[k].tipo = tipo})

\* The circuit is one voltage source with both terminals on one non-ground node.
FuenteEnLazo ==
    /\ Len(elementos) = 1
    /\ elementos[1].tipo = "V"
    /\ elementos[1].np = elementos[1].nn
    /\ elementos[1].np # 0

\* C1: a circuit that is a single voltage source with both terminals on the
\* same non-ground node makes construir_y_resolver raise LinAlgError and
\* return nothing, whatever the voltage.
C1_LazoSingular ==
    (FuenteEnLazo /\ Llamado) => ret = Raise("LinAlgError")

\* The circuit has exactly one voltage source, from a non-ground node to ground.
UnaFuenteATierra ==
    /\ SoloRV
    /\ NumDe("V") = 1
    /\ \A k \in 1..Len(elementos) :
          elementos[k].tipo = "V" => elementos[k].np # 0 /\ elementos[k].nn = 0

NodoFuente == (CHOOSE k \in 1..Len(elementos) : elementos[k].tipo = "V")

\* Sum, over the resistors from position i on (rs: the resistors in order,
\* cr: their reported currents), of the current that leaves node p into them.
RECURSIVE SalienteDe(_, _, _, _)
SalienteDe(rs, cr, p, i) ==
    IF i > Len(rs) THEN Zero
    ELSE LET rest == SalienteDe(rs, cr, p, i + 1)
             mine == IF rs[i].np = p /\ rs[i].nn # p THEN cr[i]
                     ELSE IF rs[i].nn = p /\ rs[i].np # p THEN RNeg(cr[i])
                     ELSE Zero
         IN  Rat(mine[1] * rest[2] + rest[1] * mine[2], mine[2] * rest[2])

Saliente ==
    SalienteDe(resistencias_de(elementos), ret.corriente_resistencias,
               elementos[NodoFuente].np, 1)

\* C2 as stated: with one source from node p to ground, the reported source
\* current equals the current the source supplies into the resistors at p.
C2_CorrienteSuministrada ==
    (UnaFuenteATierra /\ Resuelto) => ret.corriente_fuentes[1] = Saliente

\* C2: with one source from node p to ground, the reported source current is
\* the negative of the total current that leaves p into the resistors
\* attached to p; it is negative when the source delivers current out of its
\* positive terminal.
C2_CorrienteFuente ==
    (UnaFuenteATierra /\ Resuelto) => ret.corriente_fuentes[1] = RNeg(Saliente)

C2_Witness ==
    /\ UnaFuenteATierra
    /\ Resuelto
    /\ RLess(Zero, Saliente)
    /\ RLess(ret.corriente_fuentes[1], Zero)

\* C3: whenever construir_y_resolver returns normally, the empty list and
\* the all-ground circuits included, Vn has the key 0 and Vn[0] = 0.0.
C3_Tierra ==
    Resuelto => (0 \in DOMAIN ret.Vn /\ ret.Vn[0] = Zero)

\* The current and power the k-th resistor must be reported with, from the
\* returned voltages (0 for a node the map does not hold).
CorrienteEsperada(e) ==
    LET d == VnGet(ret.Vn, e.np)
        b == VnGet(ret.Vn, e.nn)
        dif == Rat(d[1] * b[2] - b[1] * d[2], d[2] * b[2])
    IN  Rat(dif[1] * e.val[2], dif[2] * e.val[1])

PotenciaEsperada(e) ==
    LET c == CorrienteEsperada(e)
    IN  Rat(c[1] * c[1] * e.val[1], c[2] * c[2] * e.val[2])

\* C4: whenever construir_y_resolver returns normally there is one source
\* current per "V" component and one current and one power per "R"
\* component, the k-th entry being that of the k-th component of the kind;
\* a resistor from ground to ground is reported with current 0 and power 0.
C4_Forma ==
    Resuelto =>
        LET rs == resistencias_de(elementos)
        IN  /\ Len(ret.corriente_fuentes) = NumDe("V")
            /\ Len(ret.corriente_resistencias) = NumDe("R")
            /\ Len(ret.potencias_resistencias) = NumDe("R")
            /\ \A k \in 1..Len(rs) :
                  /\ ret.corriente_resistencias[k] = CorrienteEsperada(rs[k])
                  /\ ret.potencias_resistencias[k] = PotenciaEsperada(rs[k])
                  /\ (rs[k].np = 0 /\ rs[k].nn = 0) =>
                        /\ ret.corriente_resistencias[k] = Zero
                        /\ ret.potencias_resistencias[k] = Zero

\* Two voltage sources across the same node pair with different voltages.
FuentesEnConflicto ==
    \E i, j \in 1..Len(elementos) :
        /\ i < j
        /\ elementos[i].tipo = "V" /\ elementos[j].tipo = "V"
        /\ elementos[i].np = elementos[j].np
        /\ elementos[i].nn = elementos[j].nn
        /\ elementos[i].val # elementos[j].val

\* C5 as stated: a circuit of resistors and sources with two voltage
\* sources across the same node pair and different voltages makes
\* construir_y_resolver raise LinAlgError and return nothing, whatever the
\* resistors.
C5_ConflictoSingular ==
    (SoloRV /\ FuentesEnConflicto /\ Llamado) => ret = Raise("LinAlgError")

\* C5: a circuit of resistors of nonzero resistance and sources with two
\* voltage sources across the same node pair and different voltages makes
\* construir_y_resolver raise LinAlgError and return nothing.
C5_ConflictoSinCeros ==
    (SoloRV /\ SinCeros /\ FuentesEnConflicto /\ Llamado)
        => ret = Raise("LinAlgError")

C5_Witness ==
    /\ SoloRV /\ SinCeros /\ FuentesEnConflicto /\ Llamado
    /\ Len(elementos) = 3
    /\ elementos[1].tipo = "V" /\ elementos[1].np = 1 /\ elementos[1].nn = 0
    /\ elementos[2].tipo = "R" /\ elementos[2].np = 1 /\ elementos[2].nn = 0
    /\ elementos[3].tipo = "V"
    /\ ret.st = "LinAlgError"

\* The circuit is one resistor (a, 0, R), R > 0, and one source (a, 0, E),
\* a # 0, in either order.
UnLazo ==
    /\ Len(elementos) = 2
    /\ {elementos[1].tipo, elementos[2].tipo} = {"R", "V"}
    /\ elementos[1].np = elementos[2].np /\ elementos[1].np # 0
    /\ elementos[1].nn = 0 /\ elementos[2].nn = 0
    /\ \A k \in 1..2 : elementos[k].tipo = "R" => RLess(Zero, elementos[k].val)

ValorDe(tipo) == elementos[CHOOSE k \in 1..2 : elementos[k].tipo = tipo].val

\* C7: for the circuit of one resistor (a, 0, R), R > 0, and one source
\* (a, 0, E), in either order, the call returns nodes [a], Vn = {0: 0, a: E},
\* resistor current E/R, resistor power E*E/R and source current -E/R.
C7_UnLazo ==
    (UnLazo /\ Llamado) =>
        LET a == elementos[1].np
            R == ValorDe("R")
            E == ValorDe("V")
        IN  ret = [st |-> "ok",
                   nodos |-> <<a>>,
                   Vn |-> [nd \in {0, a} |-> IF nd = 0 THEN Zero ELSE E],
                   corriente_fuentes |-> <<Rat(-(E[1] * R[2]), E[2] * R[1])>>,
                   corriente_resistencias |-> <<Rat(E[1] * R[2], E[2] * R[1])>>,
                   potencias_resistencias |->
                       <<Rat(E[1] * E[1] * R[2], E[2] * E[2] * R[1])>>]

C7_Witness ==
    /\ UnLazo /\ Resuelto
    /\ elementos[1].tipo = "V"
    /\ ValorDe("R") = <<2, 1>> /\ ValorDe("V") = <<1, 1>>
    /\ ret.potencias_resistencias = <<(<<1, 2>>)>>

\* C8: a list of nonzero resistances with a component whose kind is neither
\* "R" nor "V" makes construir_y_resolver raise ValueError and return
\* nothing, wherever the component stands and whatever the rest of the
\* circuit is.
C8_TipoDesconocido ==
    (~SoloRV /\ SinCeros /\ Llamado) => ret = Raise("ValueError")

C8_Witness ==
    /\ Llamado
    /\ Len(elementos) = 2
    /\ elementos[1].tipo = "V" /\ elementos[1].np = 0 /\ elementos[1].nn = 0
    /\ elementos[2].tipo = "X"
    /\ ret.st = "ValueError"

\* C10: whenever construir_y_resolver returns normally every reported
\* resistor power is >= 0, for every nonzero resistance.
C10_PotenciaNoNegativa ==
    Resuelto =>
        \A k \in 1..Len(ret.potencias_resistencias) :
            ~RLess(ret.potencias_resistencias[k], Zero)

\* The nodes joined to a node of S by a chain of components.
RECURSIVE Alcanzados(_)
Alcanzados(S) ==
    LET T == S \cup {elementos[k].nn : k \in {i \in 1..Len(elementos) : elementos[i].np \in S}}
               \cup {elementos[k].np : k \in {i \in 1..Len(elementos) : elementos[i].nn \in S}}
    IN  IF T = S THEN S ELSE Alcanzados(T)

\* Some non-ground node of the circuit has no chain of components to ground.
NodoFlotante ==
    \E k \in 1..Len(elementos) :
        {elementos[k].np, elementos[k].nn} \ Alcanzados({0}) # {}

TerminalesDistintos ==
    \A k \in 1..Len(elementos) : elementos[k].np # elementos[k].nn

\* C6: in a circuit of resistors (nonzero resistance) and voltage sources,
\* each with two distinct terminals, a non-ground node without a chain of
\* components to ground makes construir_y_resolver raise LinAlgError instead
\* of returning voltages.
C6_NodoFlotante ==
    (SoloRV /\ SinCeros /\ TerminalesDistintos /\ NodoFlotante /\ Llamado)
        => ret = Raise("LinAlgError")

(***************************************************************************)
(* Properties of convertir_valor.                                          *)
(***************************************************************************)
Sufijos == {"k", "M", "m", "u"}

FactorDe(c) ==
    IF c = "k" THEN <<1000, 1>>
    ELSE IF c = "M" THEN <<1000000, 1>>
    ELSE IF c = "m" THEN <<1, 1000>>
    ELSE <<1, 1000000>>

\* C9: convertir_valor trims the text; it raises ValueError when the trimmed
\* text is empty, is only a suffix, or when what is left of it without a
\* trailing suffix k, M, m, u is not a floating-point number; otherwise it
\* returns that number times the factor of the suffix (k = 1e3, M = 1e6,
\* m = 1e-3, u = 1e-6), or the number itself without a suffix.
C9_ConvertirValor ==
    conv # NoConv =>
        LET t == strip(txt)
            suf == t # <<>> /\ t[Len(t)] \in Sufijos
            resto == IF suf THEN SubSeq(t, 1, Len(t) - 1) ELSE t
            num == py_float(resto)
        IN  IF t = <<>> \/ (suf /\ Len(t) = 1) \/ ~num.ok
            THEN conv = [st |-> "ValueError", val |-> Zero]
            ELSE /\ conv.st = "ok"
                 /\ conv.val = IF suf
                               THEN LET f == FactorDe(t[Len(t)])
                                    IN  Rat(num.val[1] * f[1], num.val[2] * f[2])
                               ELSE num.val

C9_Witness ==
    /\ txt = <<" ", "2", "m">>
    /\ conv = [st |-> "ok", val |-> <<1, 500>>]

(***************************************************************************)
(* The editor handlers.                                                    *)
(***************************************************************************)
\* The three texts of an entry are all accepted: both nodes by int, the
\* value by convertir_valor.
EntradaValida(np_txt, nn_txt, val_txt) ==
    /\ py_int(np_txt).ok
    /\ py_int(nn_txt).ok
    /\ convertir_valor(val_txt).st = "ok"

\* The component a valid entry stands for.
ComponenteDe(tipo, np_txt, nn_txt, val_txt) ==
    [tipo |-> tipo, np |-> py_int(np_txt).val, nn |-> py_int(nn_txt).val,
     val |-> convertir_valor(val_txt).val]

\* C11: a call of agregar with a node text that is no integer or a value
\* text that convertir_valor rejects leaves the element list and the table
\* as they were and opens the error box; a call with a valid entry appends
\* the component of the entry at the end of the list and one row to the
\* table; and every step that lengthens the list appends exactly the
\* component of one valid entry.
C11_AgregarAtomico ==
    [][/\ \A tipo \in TiposGui, np_txt \in NodoTextos, nn_txt \in NodoTextos,
             val_txt \in ValorTextos :
             agregar(tipo, np_txt, nn_txt, val_txt) =>
                 IF EntradaValida(np_txt, nn_txt, val_txt)
                 THEN /\ elementos' = Append(elementos,
                             ComponenteDe(tipo, np_txt, nn_txt, val_txt))
                      /\ Len(tree') = Len(tree) + 1
                      /\ SubSeq(tree', 1, Len(tree)) = tree
                 ELSE /\ elementos' = elementos
                      /\ tree' = tree
                      /\ dialogo' = "Datos invalidos"
       /\ Len(elementos') > Len(elementos) =>
             \E tipo \in TiposGui, np_txt \in NodoTextos, nn_txt \in NodoTextos,
                val_txt \in ValorTextos :
                 /\ EntradaValida(np_txt, nn_txt, val_txt)
                 /\ elementos' = Append(elementos,
                        ComponenteDe(tipo, np_txt, nn_txt, val_txt))]_vars

\* An invalid entry was refused after a valid one had been added: the
\* error box is open and the list and the table still hold that one.
C11_Witness ==
    /\ handler = "agregar"
    /\ dialogo = "Datos invalidos"
    /\ Len(elementos) = 1
    /\ Len(tree) = 1

\* C12: whenever the results panel is not empty, the solver returns on the
\* current element list and the panel holds the lines resolver writes for
\* that result.
C12_NuncaObsoleto ==
    result_text # <<>> =>
        LET r == construir_y_resolver(elementos)
        IN  /\ r.st = "ok"
            /\ result_text = Lineas(elementos, r)

\* The row fila shows the kind and the two nodes of the component e.
FilaMuestra(fila, e) ==
    /\ fila[1] = e.tipo
    /\ fila[2] = str_int(e.np)
    /\ fila[3] = str_int(e.nn)

\* The table has one row for each component, in the order of the list.
FilasEnPaso ==
    /\ Len(tree) = Len(elementos)
    /\ \A i \in 1..Len(tree) : FilaMuestra(tree[i], elementos[i])

\* t is s with its i-th member taken out and the others in their order.
SinElDe(t, s, i) ==
    /\ Len(t) = Len(s) - 1
    /\ \A j \in 1..Len(t) : t[j] = IF j < i THEN s[j] ELSE s[j + 1]

\* C13: before and after every handler call the table has as many rows as
\* the list has components and the i-th row shows the kind and the nodes of
\* the i-th component; a call of eliminar_seleccionado with one row
\* selected takes the component of that index out of the list, and the row
\* out of the table, and keeps the order of the others; a call with no row
\* selected changes neither.
C13_EnPaso ==
    [][/\ FilasEnPaso
       /\ FilasEnPaso'
       /\ \A sel \in SUBSET (1..MaxFilas) :
             eliminar_seleccionado(sel) =>
                 /\ sel = {} => elementos' = elementos /\ tree' = tree
                 /\ \A i \in sel :
                        sel = {i} => /\ SinElDe(elementos', elementos, i)
                                     /\ SinElDe(tree', tree, i)]_vars

\* One of two rows was selected and deleted: one component is left, a
\* source, and the table holds its row.
C13_Witness ==
    /\ handler = "eliminar_seleccionado"
    /\ dialogo = ""
    /\ Len(elementos) = 1
    /\ tree = <<Fila("V", 1, 0, <<2, 1>>)>>
    /\ elementos = <<[tipo |-> "V", np |-> 1, nn |-> 0, val |-> <<2, 1>>]>>

====
